---- MODULE Spec2Model ----
(***************************************************************************)
(* Build-time model of the Sqwad landing site: the Zod schema of the       *)
(* `agents` content collection (src/content/config.ts), the hand-written   *)
(* listing constant AGENTS_LIST (src/lib/constants.ts), the agent section  *)
(* components (src/components/sections/agent/index.ts) and the static      *)
(* build that validates the collection and then renders the pages.         *)
(***************************************************************************)
EXTENDS Integers, Sequences, FiniteSets, TLC

VARIABLES
    entries,    \* content files of src/content/agents/, in directory order (raw JSON)
    next,       \* index of the next content file the collection sync validates
    store,      \* validated entries of the collection: <<[id, data]>>
    pc,         \* "sync" | "render" | "done" | "failed"
    exitCode,   \* -1 while the build runs, then the exit code of `npm run build`
    dist,       \* paths written to ./dist/
    index,      \* cards rendered on /agents
    detail      \* sections rendered on each detail page

vars == <<entries, next, store, pc, exitCode, dist, index, detail>>

-----------------------------------------------------------------------------
(* Bounds *)

MaxEdits == 2
MaxEntries == 3

-----------------------------------------------------------------------------
(* JSON values, tagged with their JavaScript type.  A missing key and the   *)
(* value undefined are the same thing for Zod.                              *)

Undef == [t |-> "undef"]
Str(s) == [t |-> "str", v |-> s]
Num(n) == [t |-> "num", v |-> n, frac |-> 0]
NumHalf(n) == [t |-> "num", v |-> n, frac |-> 5]
Bool(b) == [t |-> "bool", v |-> b]
Arr(s) == [t |-> "arr", v |-> s]
Obj(r) == [t |-> "obj", v |-> r]

(* Result of a parse: the parsed value, or a ValidationError. *)
Ok(x) == [ok |-> TRUE, v |-> x]
Fail == [ok |-> FALSE, v |-> Undef]

-----------------------------------------------------------------------------
(* Zod schemas of src/content/config.ts *)

zString(x) == IF x.t = "str" THEN Ok(x) ELSE Fail

zBoolean(x) == IF x.t = "bool" THEN Ok(x) ELSE Fail

zNumber(x) == IF x.t = "num" THEN Ok(x) ELSE Fail

(* z.string().optional(): undefined passes through. *)
zOptionalString(x) == IF x.t = "undef" THEN Ok(Undef) ELSE zString(x)

skillSchema_partial(x) ==
    IF x.t # "obj" THEN Fail
    ELSE LET n == zString(x.v.name)
             d == zString(x.v.description)
         IN  IF n.ok
             THEN Ok(Obj([name |-> n.v, description |-> d.v]))
             ELSE Fail

skillSchema(x) ==
    IF x.t # "obj" THEN Fail
    ELSE LET n == zString(x.v.name)
             d == zString(x.v.description)
         IN  IF n.ok /\ d.ok
             THEN Ok(Obj([name |-> n.v, description |-> d.v]))
             ELSE Fail

useCaseSchema(x) ==
    IF x.t # "obj" THEN Fail
    ELSE LET ti == zString(x.v.title)
             d  == zString(x.v.description)
         IN  IF ti.ok /\ d.ok
             THEN Ok(Obj([title |-> ti.v, description |-> d.v]))
             ELSE Fail

DefaultLang == "bash"

langSchema_optional(x) == zOptionalString(x)

(* z.string().default('bash'): undefined is replaced by the default. *)
langSchema(x) == IF x.t = "undef" THEN zString(Str(DefaultLang)) ELSE zString(x)

codeExampleSchema(x) ==
    IF x.t # "obj" THEN Fail
    ELSE LET ti == zString(x.v.title)
             c  == zString(x.v.code)
             l  == langSchema(x.v.lang)
         IN  IF ti.ok /\ c.ok /\ l.ok
             THEN Ok(Obj([title |-> ti.v, code |-> c.v, lang |-> l.v]))
             ELSE Fail

(* The element schema of a z.array(...). *)
ItemSchema(item, x) ==
    CASE item = "string"      -> zString(x)
      [] item = "skill"       -> skillSchema(x)
      [] item = "useCase"     -> useCaseSchema(x)
      [] item = "codeExample" -> codeExampleSchema(x)

zArray_reversed(item, x) ==
    IF x.t # "arr" THEN Fail
    ELSE LET rs == [i \in DOMAIN x.v |-> ItemSchema(item, x.v[i])]
         IN  IF \A i \in DOMAIN x.v : rs[i].ok
             THEN Ok(Arr([i \in DOMAIN x.v |-> rs[Len(x.v) + 1 - i].v]))
             ELSE Fail

(* z.array(item): an array all of whose elements parse. *)
zArray(item, x) ==
    IF x.t # "arr" THEN Fail
    ELSE LET rs == [i \in DOMAIN x.v |-> ItemSchema(item, x.v[i])]
         IN  IF \A i \in DOMAIN x.v : rs[i].ok
             THEN Ok(Arr([i \in DOMAIN x.v |-> rs[i].v]))
             ELSE Fail

zStringArray_nonempty(x) ==
    IF x.t = "arr" /\ Len(x.v) = 0 THEN Fail ELSE zArray("string", x)

zStringArray(x) == zArray("string", x)

mcpToolsSchema_required(x) == zStringArray(x)

(* z.array(z.string()).optional() *)
mcpToolsSchema(x) == IF x.t = "undef" THEN Ok(Undef) ELSE zStringArray(x)

philosophySchema(x) ==
    IF x.t # "obj" THEN Fail
    ELSE LET q == zString(x.v.quote)
             e == zStringArray(x.v.explanation)
         IN  IF q.ok /\ e.ok
             THEN Ok(Obj([quote |-> q.v, explanation |-> e.v]))
             ELSE Fail

DefaultOrder == 999

(* z.boolean().default(false) *)
draftSchema(x) == IF x.t = "undef" THEN zBoolean(Bool(FALSE)) ELSE zBoolean(x)

orderSchema_zero(x) == IF x.t = "undef" THEN zNumber(Num(0)) ELSE zNumber(x)

orderSchema_int(x) ==
    IF x.t = "undef" THEN zNumber(Num(DefaultOrder))
    ELSE IF x.t = "num" /\ x.frac # 0 THEN Fail ELSE zNumber(x)

(* z.number().default(999) *)
orderSchema(x) ==
    IF x.t = "undef" THEN zNumber(Num(DefaultOrder)) ELSE zNumber(x)

(* Keys of the z.object shape of the agents collection, in source order. *)
SchemaKeys ==
    {"name", "slug", "tagline", "description", "accentColor", "emoji",
     "about", "specialties", "skills", "useCases", "codeExamples",
     "does", "doesNot", "mcpTools", "philosophy", "draft", "order"}

FieldSchema(f, x) ==
    CASE f = "name"         -> zString(x)
      [] f = "slug"         -> zString(x)
      [] f = "tagline"      -> zString(x)
      [] f = "description"  -> zString(x)
      [] f = "accentColor"  -> zString(x)
      [] f = "emoji"        -> zOptionalString(x)
      [] f = "about"        -> zStringArray(x)
      [] f = "specialties"  -> zStringArray(x)
      [] f = "skills"       -> zArray("skill", x)
      [] f = "useCases"     -> zArray("useCase", x)
      [] f = "codeExamples" -> zArray("codeExample", x)
      [] f = "does"         -> zStringArray(x)
      [] f = "doesNot"      -> zStringArray(x)
      [] f = "mcpTools"     -> mcpToolsSchema(x)
      [] f = "philosophy"   -> philosophySchema(x)
      [] f = "draft"        -> draftSchema(x)
      [] f = "order"        -> orderSchema(x)

(* z.object(...).parse: every key of the shape is parsed, one failure fails *)
(* the object, keys outside the shape (here `image`) are stripped.          *)
validate(raw) ==
    LET rs == [f \in SchemaKeys |-> FieldSchema(f, raw[f])]
    IN  IF \A f \in SchemaKeys : rs[f].ok
        THEN Ok([f \in SchemaKeys |-> rs[f].v])
        ELSE Fail

-----------------------------------------------------------------------------
(* Listing data: src/lib/constants.ts *)

AGENT_PLACEHOLDER_IMAGE == "/images/agent-placeholder.png"

Card(n, s, tg, sp, c) ==
    [name |-> n, slug |-> s, tagline |-> tg, specialty |-> sp,
     image |-> AGENT_PLACEHOLDER_IMAGE, accentColor |-> c]

AGENTS_LIST ==
    << Card("Marco Astro", "marco-astro",
            "Le meilleur JavaScript, c'est celui qu'on n'envoie pas au client.", "Astro & Sites Statiques", "#f97316"),
       Card("Marco Tailwind", "marco-tailwind", "Pixel-perfect, responsive, et maintenable. Toujours.", "CSS & Tailwind", "#ef4444"),
       Card("Marco Angular", "marco-angular", "Enterprise-ready applications avec architecture solide.", "Angular", "#dc2626"),
       Card("Nova AI", "nova-ai", "Intelligence artificielle et machine learning intégrés.", "IA & ML", "#8b5cf6"),
       Card("Bruno Backend", "bruno-backend", "APIs robustes, scalables et sécurisées.", "Backend & APIs", "#059669"),
       Card("Kira DevOps", "kira-devops", "CI/CD, infrastructure as code, et déploiement continu.", "DevOps & CI/CD", "#0891b2"),
       Card("Shadow Security", "shadow-security", "Sécurité applicative et protection des données.", "Sécurité", "#374151"),
       Card("Flash Perf", "flash-perf", "Optimisation et performance à tous les niveaux.", "Performance", "#eab308") >>

(* The /agents page renders one AgentCard per element of AGENTS_LIST, in   *)
(* the order of the constant; the content collection is not consulted.     *)
listAgents(allRecords) == AGENTS_LIST

(* AgentCard links to /agents/[slug]. *)
AgentPath(slug) == <<"agents", slug>>

IndexPath == <<"agents">>

(* AgentCard.astro: the card of one agent, a link to its detail page. *)
AgentCard(c) ==
    [name |-> c.name, slug |-> c.slug, tagline |-> c.tagline,
     specialty |-> c.specialty, image |-> c.image,
     accentColor |-> c.accentColor, href |-> AgentPath(c.slug)]

-----------------------------------------------------------------------------
(* Detail pages: src/pages/agents/*.astro *)

(* The only detail page of the repository: marco-astro.astro. *)
DetailPages == {"marco-astro"}

(* getEntry('agents', id): the entry of the collection whose file is id.json *)
getEntry(coll, id) ==
    LET hits == {i \in DOMAIN coll : coll[i].id = id}
    IN  coll[CHOOSE i \in hits : TRUE]

(* Order of the section components of an agent page. *)
SectionOrder_swapped ==
    << "Hero", "About", "Skills", "Specialties", "UseCases", "Examples",
       "DosDonts", "Config", "Philosophy", "CTA" >>

SectionOrder ==
    << "Hero", "About", "Specialties", "Skills", "UseCases", "Examples",
       "DosDonts", "Config", "Philosophy", "CTA" >>

SkillsProps_fullRecord(r) == r

(* Props of AgentSkills: skills, accentColor. *)
SkillsProps(r) == [skills |-> r.skills, accentColor |-> r.accentColor]

(* Props handed to each section component. *)
SectionProps(kind, r) ==
    CASE kind = "Hero"        -> [name |-> r.name, tagline |-> r.tagline,
                                  accentColor |-> r.accentColor]
      [] kind = "About"       -> [title |-> <<"Qui est", r.name>>,
                                  paragraphs |-> r.about]
      [] kind = "Specialties" -> [specialties |-> r.specialties]
      [] kind = "Skills"      -> SkillsProps(r)
      [] kind = "UseCases"    -> [useCases |-> r.useCases, agentName |-> r.name]
      [] kind = "Examples"    -> [examples |-> r.codeExamples]
      [] kind = "DosDonts"    -> [does |-> r.does, doesNot |-> r.doesNot,
                                  agentName |-> r.name]
      [] kind = "Config"      -> [mcpTools |-> r.mcpTools]
      [] kind = "Philosophy"  -> [philosophy |-> r.philosophy,
                                  accentColor |-> r.accentColor]
      [] kind = "CTA"         -> [agentName |-> r.name, githubUrl |-> Undef]

(* The Config section is rendered only for a present, non-empty mcpTools. *)
IncludeConfig_always(r) == TRUE

IncludeConfig(r) == r.mcpTools.t = "arr" /\ Len(r.mcpTools.v) > 0

assemble(r) ==
    LET kinds == SelectSeq(SectionOrder,
                           LAMBDA k : k # "Config" \/ IncludeConfig(r))
    IN  [i \in DOMAIN kinds |->
            [kind |-> kinds[i], props |-> SectionProps(kinds[i], r)]]

-----------------------------------------------------------------------------
(* Content files the build can find in src/content/agents/ *)

RawKeys == SchemaKeys \cup {"image"}

Skill(n, d) == Obj([name |-> n, description |-> d])

UseCase(ti, d) == Obj([title |-> ti, description |-> d])

CodeExample(ti, c, l) == Obj([title |-> ti, code |-> c, lang |-> l])

Philosophy(q, e) == Obj([quote |-> q, explanation |-> e])

(* A complete entry in the shape of marco-astro.json. *)
BaseEntry ==
    [name |-> Str("Marco Astro"), slug |-> Str("marco-astro"),
     tagline |-> Str("tagline"), description |-> Str("description"),
     accentColor |-> Str("#f97316"), emoji |-> Undef,
     about |-> Arr(<<Str("p1")>>), specialties |-> Arr(<<Str("Astro")>>),
     skills |-> Arr(<<Skill(Str("astro-conventions"), Str("d"))>>),
     useCases |-> Arr(<<UseCase(Str("Blogs"), Str("d"))>>),
     codeExamples |-> Arr(<<CodeExample(Str("ex"), Str("@marco-astro"), Undef)>>),
     does |-> Arr(<<Str("SSG")>>), doesNot |-> Arr(<<Str("SPA")>>),
     mcpTools |-> Arr(<<Str("context7")>>),
     philosophy |-> Philosophy(Str("x"), Arr(<<Str("y")>>)),
     draft |-> Undef, order |-> Undef, image |-> Undef]

(* The scenario input of the specification: required narrative fields only. *)
MinimalInput ==
    [name |-> Str("Marco Astro"), slug |-> Str("marco-astro"),
     tagline |-> Str("..."), description |-> Undef,
     accentColor |-> Undef, emoji |-> Undef,
     about |-> Undef, specialties |-> Undef,
     skills |-> Arr(<<>>), useCases |-> Arr(<<>>), codeExamples |-> Arr(<<>>),
     does |-> Arr(<<>>), doesNot |-> Arr(<<>>), mcpTools |-> Undef,
     philosophy |-> Philosophy(Str("x"), Arr(<<Str("y")>>)),
     draft |-> Undef, order |-> Undef, image |-> Undef]

(* The same input completed with every key the schema requires. *)
MinimalValidInput ==
    [MinimalInput EXCEPT !.description = Str("d"), !.accentColor = Str("#f97316"),
                         !.about = Arr(<<>>), !.specialties = Arr(<<>>)]

StringAlts == {Undef, Num(1), Str("x")}

StringArrayAlts ==
    {Undef, Str("x"), Arr(<<>>), Arr(<<Str("a"), Str("b")>>),
     Arr(<<Str("a"), Num(1)>>)}

Alt(f) ==
    CASE f \in {"name", "accentColor"} -> StringAlts
      [] f \in {"tagline", "description"} -> {Undef}
      [] f = "slug" -> {Num(1), Str("nova-ai")}
      [] f = "emoji" -> {Num(1), Str("raccoon")}
      [] f = "image" -> {Str("/images/marco.png")}
      [] f \in {"about", "does"} -> StringArrayAlts
      [] f \in {"specialties", "doesNot"} -> {Undef, Arr(<<>>)}
      [] f = "skills" ->
            {Undef, Arr(<<>>),
             Arr(<<Skill(Str("a"), Str("d")), Skill(Str("b"), Str("d"))>>),
             Arr(<<Skill(Str("a"), Str("d")), Skill(Str("b"), Undef)>>),
             Arr(<<Skill(Num(1), Str("d"))>>)}
      [] f = "useCases" ->
            {Undef, Str("x"), Arr(<<>>),
             Arr(<<UseCase(Str("a"), Str("d")), UseCase(Undef, Str("d"))>>)}
      [] f = "codeExamples" ->
            {Undef, Str("x"), Arr(<<>>),
             Arr(<<CodeExample(Str("a"), Str("c"), Str("ts")),
                   CodeExample(Str("b"), Str("c"), Undef)>>),
             Arr(<<CodeExample(Str("a"), Str("c"), Str("shell"))>>),
             Arr(<<CodeExample(Str("a"), Str("c"), Num(1))>>),
             Arr(<<CodeExample(Str("a"), Undef, Undef)>>)}
      [] f = "mcpTools" ->
            {Undef, Arr(<<>>), Arr(<<Str("a"), Str("b")>>), Arr(<<Num(1)>>)}
      [] f = "philosophy" ->
            {Undef,
             Philosophy(Str("q"), Arr(<<>>)),
             Philosophy(Undef, Arr(<<Str("y")>>)),
             Philosophy(Str("q"), Undef),
             Philosophy(Str("q"), Arr(<<Num(1)>>))}
      [] f = "draft" -> {Bool(TRUE), Bool(FALSE), Str("yes")}
      [] f = "order" -> {Num(2), Num(DefaultOrder), NumHalf(1), Str("1")}

FieldEdits == UNION {{<<f, a>> : a \in Alt(f)} : f \in RawKeys}

RECURSIVE EditsOf(_)
EditsOf(n) ==
    IF n = 0 THEN {BaseEntry}
    ELSE {[r EXCEPT ![e[1]] = e[2]] : r \in EditsOf(n - 1), e \in FieldEdits}

(* A build over one content file, the situation of the repository. *)
SingleInputs ==
    {<<r>> : r \in EditsOf(MaxEdits) \cup {MinimalInput, MinimalValidInput}}

(* Entries of a collection with several files: they differ in slug, draft *)
(* and order, and one of them is malformed.                                *)
ListedEntries ==
    {[BaseEntry EXCEPT !.slug = Str(s), !.draft = d, !.order = o] :
        s \in {"marco-astro", "marco-tailwind"},
        d \in {Undef, Bool(TRUE)},
        o \in {Undef, Num(2)}}
    \cup {[BaseEntry EXCEPT !.name = Undef]}

MultiInputs == UNION {[1..n -> ListedEntries] : n \in 2..MaxEntries}

(* Content files are named after their agent: marco-astro.json is the first. *)
FileId(i) == AGENTS_LIST[i].slug

-----------------------------------------------------------------------------
(* The static build: `npm run build` *)

Init ==
    /\ entries \in SingleInputs \cup MultiInputs
    /\ next = 1
    /\ store = <<>>
    /\ pc = "sync"
    /\ exitCode = -1
    /\ dist = {}
    /\ index = <<>>
    /\ detail = [p \in DetailPages |-> <<>>]

ValidateEntry_unchecked ==
    /\ pc = "sync"
    /\ next <= Len(entries)
    /\ LET res == validate(entries[next])
       IN  /\ store' = Append(store, [id |-> FileId(next),
                                      data |-> IF res.ok THEN res.v
                                               ELSE entries[next]])
           /\ next' = next + 1
           /\ UNCHANGED <<pc, exitCode>>
    /\ UNCHANGED <<entries, dist, index, detail>>

(* The collection sync parses one content file with the schema; an invalid *)
(* file throws and the build stops before any page is generated.           *)
ValidateEntry ==
    /\ pc = "sync"
    /\ next <= Len(entries)
    /\ LET res == validate(entries[next])
       IN  IF res.ok
           THEN /\ store' = Append(store, [id |-> FileId(next), data |-> res.v])
                /\ next' = next + 1
                /\ UNCHANGED <<pc, exitCode>>
           ELSE /\ pc' = "failed"
                /\ exitCode' = 1
                /\ UNCHANGED <<store, next>>
    /\ UNCHANGED <<entries, dist, index, detail>>

SyncDone ==
    /\ pc = "sync"
    /\ next > Len(entries)
    /\ pc' = "render"
    /\ UNCHANGED <<entries, next, store, exitCode, dist, index, detail>>

(* src/pages/agents/index.astro *)
RenderIndex ==
    /\ pc = "render"
    /\ IndexPath \notin dist
    /\ index' = LET cards == listAgents(store)
                 IN  [k \in DOMAIN cards |-> AgentCard(cards[k])]
    /\ dist' = dist \cup {IndexPath}
    /\ UNCHANGED <<entries, next, store, pc, exitCode, detail>>

(* src/pages/agents/marco-astro.astro *)
RenderDetail(p) ==
    /\ pc = "render"
    /\ AgentPath(p) \notin dist
    /\ detail' = [detail EXCEPT ![p] = assemble(getEntry(store, p).data)]
    /\ dist' = dist \cup {AgentPath(p)}
    /\ UNCHANGED <<entries, next, store, pc, exitCode, index>>

BuildDone ==
    /\ pc = "render"
    /\ IndexPath \in dist
    /\ \A p \in DetailPages : AgentPath(p) \in dist
    /\ pc' = "done"
    /\ exitCode' = 0
    /\ UNCHANGED <<entries, next, store, dist, index, detail>>

Next ==
    \/ ValidateEntry
    \/ SyncDone
    \/ RenderIndex
    \/ \E p \in DetailPages : RenderDetail(p)
    \/ BuildDone

Spec == Init /\ [][Next]_vars

-----------------------------------------------------------------------------
(* Properties *)

IsStr(x) == x.t = "str"

IsStrArr(x) == x.t = "arr" /\ \A k \in DOMAIN x.v : x.v[k].t = "str"

IsItemArr(x, required) ==
    /\ x.t = "arr"
    /\ \A k \in DOMAIN x.v :
          /\ x.v[k].t = "obj"
          /\ \A key \in required : x.v[k].v[key].t = "str"

(* A content file in the shape the agent schema describes: every required *)
(* key present with its primitive type, every list item complete.         *)
WellFormed(raw) ==
    /\ \A f \in {"name", "slug", "tagline", "description", "accentColor"} :
          IsStr(raw[f])
    /\ raw.emoji.t \in {"undef", "str"}
    /\ \A f \in {"about", "specialties", "does", "doesNot"} : IsStrArr(raw[f])
    /\ IsItemArr(raw.skills, {"name", "description"})
    /\ IsItemArr(raw.useCases, {"title", "description"})
    /\ IsItemArr(raw.codeExamples, {"title", "code"})
    /\ \A k \in DOMAIN raw.codeExamples.v :
          raw.codeExamples.v[k].v.lang.t \in {"undef", "str"}
    /\ raw.mcpTools.t = "undef" \/ IsStrArr(raw.mcpTools)
    /\ raw.philosophy.t = "obj"
    /\ IsStr(raw.philosophy.v.quote)
    /\ IsStrArr(raw.philosophy.v.explanation)
    /\ raw.draft.t \in {"undef", "bool"}
    /\ raw.order.t \in {"undef", "num"}

(* C1 (as stated): an omitted lang of a code example is validated to      *)
(* "shell", a supplied lang is returned unchanged.                        *)
C1_LangDefaultShell ==
    \A i \in DOMAIN store : \A k \in DOMAIN store[i].data.codeExamples.v :
        LET src == entries[i].codeExamples.v[k].v.lang
            out == store[i].data.codeExamples.v[k].v.lang
        IN  /\ src.t = "undef" => (out.t = "str" /\ out.v = "shell")
            /\ src.t # "undef" => (out.t = src.t /\ out.v = src.v)

(* C1 (amended): an omitted lang of a code example is validated to "bash", *)
(* a supplied lang is returned unchanged.                                  *)
C1_LangDefaultBash ==
    \A i \in DOMAIN store : \A k \in DOMAIN store[i].data.codeExamples.v :
        LET src == entries[i].codeExamples.v[k].v.lang
            out == store[i].data.codeExamples.v[k].v.lang
        IN  /\ src.t = "undef" => (out.t = "str" /\ out.v = "bash")
            /\ src.t # "undef" => (out.t = src.t /\ out.v = src.v)

C1_Witness ==
    \E i \in DOMAIN store : \E k1, k2 \in DOMAIN store[i].data.codeExamples.v :
        /\ entries[i].codeExamples.v[k1].v.lang.t = "undef"
        /\ entries[i].codeExamples.v[k2].v.lang.t = "str"
        /\ entries[i].codeExamples.v[k2].v.lang.v = "ts"

(* C2: the validated record always has draft and order; each is the       *)
(* default (false, 999) when the source omitted it and the supplied value *)
(* otherwise.                                                             *)
C2_DraftOrderDefaults ==
    \A i \in DOMAIN store :
        LET src == entries[i]
            out == store[i].data
        IN  /\ out.draft.t = "bool"
            /\ out.order.t = "num"
            /\ src.draft.t = "undef" => out.draft.v = FALSE
            /\ src.draft.t # "undef" => (src.draft.t = "bool" /\ out.draft.v = src.draft.v)
            /\ src.order.t = "undef" => (out.order.v = 999 /\ out.order.frac = 0)
            /\ src.order.t # "undef" =>
                  /\ src.order.t = "num"
                  /\ out.order.v = src.order.v
                  /\ out.order.frac = src.order.frac

C2_Witness ==
    \E i, j \in DOMAIN store :
        /\ entries[i].draft.t = "undef" /\ entries[i].order.t = "undef"
        /\ entries[j].draft.t = "bool" /\ entries[j].draft.v = TRUE
        /\ entries[j].order.t = "num" /\ entries[j].order.v = 2

(* A validated record is whole: every key of the schema carries a value   *)
(* of its type, list items included.                                      *)
Complete(r) ==
    /\ WellFormed([f \in RawKeys |-> IF f \in SchemaKeys THEN r[f] ELSE Undef])
    /\ r.draft.t = "bool"
    /\ r.order.t = "num"
    /\ \A k \in DOMAIN r.codeExamples.v : r.codeExamples.v[k].v.lang.t = "str"

(* C3: validate is all-or-nothing: a content file that lacks a required   *)
(* key, mistypes one, or has one incomplete or mistyped list item never   *)
(* yields a record, and the records that exist are whole.                 *)
C3_AllOrNothing ==
    /\ \A i \in 1..Len(entries) :
          ~WellFormed(entries[i]) => (Len(store) < i /\ pc \in {"sync", "failed"})
    /\ \A i \in DOMAIN store : Complete(store[i].data)
    /\ pc = "failed" => ~WellFormed(entries[next])

C3_Witness ==
    /\ pc = "failed"
    /\ entries[next].skills.t = "arr"
    /\ \E k \in DOMAIN entries[next].skills.v :
          /\ entries[next].skills.v[k].t = "obj"
          /\ entries[next].skills.v[k].v.description.t = "undef"
    /\ \E k \in DOMAIN entries[next].skills.v :
          /\ entries[next].skills.v[k].t = "obj"
          /\ entries[next].skills.v[k].v.description.t = "str"

(* Listing order of the specification: ascending order, ties in input order. *)
OrderKey(r) == r.order.v * 10 + r.order.frac

IsDraft(i) == store[i].data.draft.v = TRUE

ListedBefore(i, j) ==
    \/ OrderKey(store[i].data) < OrderKey(store[j].data)
    \/ OrderKey(store[i].data) = OrderKey(store[j].data) /\ i < j

CardsOf(i) == {k \in DOMAIN index : index[k].slug = store[i].data.slug.v}

(* C4: the listing holds no draft record, holds every other record exactly *)
(* once, and is sorted ascending by order, ties in input order.            *)
C4_ListingFilteredSorted ==
    IndexPath \in dist =>
        /\ \A i \in DOMAIN store : IsDraft(i) => CardsOf(i) = {}
        /\ \A i \in DOMAIN store : ~IsDraft(i) => Cardinality(CardsOf(i)) = 1
        /\ \A i, j \in DOMAIN store :
              (~IsDraft(i) /\ ~IsDraft(j) /\ ListedBefore(i, j)) =>
                  \A ki \in CardsOf(i), kj \in CardsOf(j) : ki < kj

SectionRank(kind) ==
    CASE kind = "Hero" -> 1
      [] kind = "About" -> 2
      [] kind = "Specialties" -> 3
      [] kind = "Skills" -> 4
      [] kind = "UseCases" -> 5
      [] kind = "Examples" -> 6
      [] kind = "DosDonts" -> 7
      [] kind = "Config" -> 8
      [] kind = "Philosophy" -> 9
      [] kind = "CTA" -> 10

(* C5: the sections of an assembled document follow the fixed order Hero, *)
(* About, Specialties, Skills, UseCases, Examples, DosDonts, Config,      *)
(* Philosophy, CTA: none twice, none before one that precedes it.         *)
C5_SectionOrder ==
    \A p \in DetailPages : \A a, b \in DOMAIN detail[p] :
        a < b => SectionRank(detail[p][a].kind) < SectionRank(detail[p][b].kind)

C5_Witness ==
    \E p \in DetailPages :
        /\ AgentPath(p) \in dist
        /\ Len(detail[p]) = 10
        /\ entries[1].skills.t = "arr" /\ Len(entries[1].skills.v) = 2

KindsOf(doc) == {doc[a].kind : a \in DOMAIN doc}

AlwaysRendered ==
    {"Hero", "About", "Specialties", "Skills", "UseCases", "Examples",
     "DosDonts", "Philosophy", "CTA"}

(* C6: the document of an agent has the Config section exactly when the  *)
(* content file gives a non-empty mcpTools, and has every other section  *)
(* whatever the lists hold.                                              *)
C6_ConfigIffMcpTools ==
    \A p \in DetailPages : AgentPath(p) \in dist =>
        /\ "Config" \in KindsOf(detail[p]) <=>
              (entries[1].mcpTools.t = "arr" /\ Len(entries[1].mcpTools.v) > 0)
        /\ AlwaysRendered \subseteq KindsOf(detail[p])

C6_Witness ==
    \E p \in DetailPages :
        /\ AgentPath(p) \in dist
        /\ entries[1].mcpTools.t = "arr" /\ Len(entries[1].mcpTools.v) = 0
        /\ Len(entries[1].skills.v) = 0
        /\ "Config" \notin KindsOf(detail[p])

DuplicateSlug ==
    \E i, j \in 1..Len(entries) :
        /\ i # j
        /\ entries[i].slug.t = "str" /\ entries[j].slug.t = "str"
        /\ entries[i].slug.v = entries[j].slug.v

(* C7: a build over two content files with the same slug fails before    *)
(* any document is written.                                              *)
C7_DuplicateSlugFails ==
    DuplicateSlug => (dist = {} /\ exitCode # 0 /\ pc \in {"sync", "failed"})

(* C8: a document is written only after the entries were validated; a    *)
(* malformed file stops the build at the first one with exit code 1 and  *)
(* no document.                                                          *)
C8_ValidateBeforeEmit ==
    /\ \A p \in DetailPages : AgentPath(p) \in dist =>
          \E i \in DOMAIN store : store[i].id = p /\ WellFormed(entries[i])
    /\ (\E i \in 1..Len(entries) : ~WellFormed(entries[i])) =>
          (dist = {} /\ exitCode # 0)
    /\ pc = "failed" =>
          /\ exitCode = 1
          /\ ~WellFormed(entries[next])
          /\ \A i \in 1..(next - 1) : WellFormed(entries[i])

C8_Witness ==
    /\ pc = "failed"
    /\ next = 2
    /\ Len(entries) > 2
    /\ WellFormed(entries[3])

NonDraft == {i \in DOMAIN store : ~IsDraft(i)}

DetailDocs == dist \ {IndexPath}

(* C9: a finished build has written one detail document per non-draft    *)
(* record, at the path of its slug, and one index listing exactly the    *)
(* non-draft records sorted by order.                                    *)
C9_GeneratedOutput ==
    pc = "done" =>
        /\ DetailDocs = {AgentPath(store[i].data.slug.v) : i \in NonDraft}
        /\ Cardinality(DetailDocs) = Cardinality(NonDraft)
        /\ IndexPath \in dist
        /\ Len(index) = Cardinality(NonDraft)
        /\ \A i \in NonDraft : Cardinality(CardsOf(i)) = 1
        /\ \A i, j \in NonDraft : ListedBefore(i, j) =>
              \A ki \in CardsOf(i), kj \in CardsOf(j) : ki < kj

SectionOf(doc, kind) == doc[CHOOSE a \in DOMAIN doc : doc[a].kind = kind]

NineSectionDocument(doc) ==
    /\ Len(doc) = 9
    /\ "Config" \notin KindsOf(doc)
    /\ {"Skills", "UseCases", "Examples"} \subseteq KindsOf(doc)
    /\ SectionOf(doc, "Skills").props.skills = Arr(<<>>)
    /\ SectionOf(doc, "UseCases").props.useCases = Arr(<<>>)
    /\ SectionOf(doc, "Examples").props.examples = Arr(<<>>)

(* C10 (as stated): the scenario input without mcpTools passes validate  *)
(* and is assembled into 9 sections, no Config, with empty Skills,       *)
(* UseCases and Examples sections.                                       *)
C10_MinimalInputAssembles ==
    entries = <<MinimalInput>> =>
        /\ pc # "failed"
        /\ AgentPath("marco-astro") \in dist =>
              NineSectionDocument(detail["marco-astro"])

(* C10 (amended): the scenario input is rejected, as description,        *)
(* accentColor, about and specialties are required; completed with them  *)
(* it passes validate and is assembled into 9 sections, no Config, with  *)
(* empty Skills, UseCases and Examples sections.                         *)
C10_MinimalValidInputAssembles ==
    /\ entries = <<MinimalInput>> => (store = <<>> /\ pc \in {"sync", "failed"})
    /\ entries = <<MinimalValidInput>> =>
          /\ pc # "failed"
          /\ AgentPath("marco-astro") \in dist =>
                NineSectionDocument(detail["marco-astro"])

C10_Witness ==
    /\ entries = <<MinimalValidInput>>
    /\ pc = "done"
    /\ Len(detail["marco-astro"]) = 9

(* Keys of the agent schema that carry neither .optional() nor .default(). *)
RequiredKeys ==
    {"name", "slug", "tagline", "description", "accentColor", "about",
     "specialties", "skills", "useCases", "codeExamples", "does", "doesNot",
     "philosophy"}

(* A list item or the philosophy object lacks one of its required keys. *)
ItemKeyAbsent(raw) ==
    \/ /\ raw.skills.t = "arr"
       /\ \E k \in DOMAIN raw.skills.v :
             /\ raw.skills.v[k].t = "obj"
             /\ \E key \in {"name", "description"} :
                   raw.skills.v[k].v[key].t = "undef"
    \/ /\ raw.useCases.t = "arr"
       /\ \E k \in DOMAIN raw.useCases.v :
             /\ raw.useCases.v[k].t = "obj"
             /\ \E key \in {"title", "description"} :
                   raw.useCases.v[k].v[key].t = "undef"
    \/ /\ raw.codeExamples.t = "arr"
       /\ \E k \in DOMAIN raw.codeExamples.v :
             /\ raw.codeExamples.v[k].t = "obj"
             /\ \E key \in {"title", "code"} :
                   raw.codeExamples.v[k].v[key].t = "undef"
    \/ /\ raw.philosophy.t = "obj"
       /\ \E key \in {"quote", "explanation"} :
             raw.philosophy.v[key].t = "undef"

(* The complete entry, except that some of emoji, mcpTools, draft, order *)
(* and the lang of its code example are left out.                        *)
OnlyOptionalAbsent(raw) ==
    \A f \in RawKeys :
        \/ raw[f] = BaseEntry[f]
        \/ f \in {"emoji", "mcpTools", "draft", "order"} /\ raw[f].t = "undef"

(* C11: validate accepts the absence of emoji and mcpTools (left absent)  *)
(* and of draft, order and lang (defaulted), and of no other key: a file  *)
(* without any other key of the schema, top-level or nested, is rejected. *)
C11_AcceptedAbsences ==
    /\ \A i \in 1..Len(entries) :
          ((\E f \in RequiredKeys : entries[i][f].t = "undef")
              \/ ItemKeyAbsent(entries[i]))
          => (Len(store) < i /\ pc \in {"sync", "failed"})
    /\ pc = "failed" => ~OnlyOptionalAbsent(entries[next])
    /\ \A i \in DOMAIN store :
          /\ entries[i].emoji.t = "undef" => store[i].data.emoji.t = "undef"
          /\ entries[i].mcpTools.t = "undef" => store[i].data.mcpTools.t = "undef"
          /\ entries[i].draft.t = "undef" => store[i].data.draft.t = "bool"
          /\ entries[i].order.t = "undef" => store[i].data.order.t = "num"
          /\ \A k \in DOMAIN entries[i].codeExamples.v :
                entries[i].codeExamples.v[k].v.lang.t = "undef"
                    => store[i].data.codeExamples.v[k].v.lang.t = "str"

C11_Witness ==
    /\ pc = "done"
    /\ Len(entries) = 1
    /\ OnlyOptionalAbsent(entries[1])
    /\ entries[1].mcpTools.t = "undef"
    /\ entries[1].emoji.t = "undef"
    /\ store[1].data.mcpTools.t = "undef"

(* C12: every card of the listing has an image, the image of its record  *)
(* when the content file gives one and the placeholder otherwise, and    *)
(* the listing is no longer than the list of records.                    *)
C12_CardImages ==
    IndexPath \in dist =>
        /\ Len(index) <= Len(store)
        /\ \A k \in DOMAIN index : index[k].image # ""
        /\ \A i \in DOMAIN store : \A k \in CardsOf(i) :
              index[k].image =
                  IF entries[i].image.t = "str" THEN entries[i].image.v
                  ELSE AGENT_PLACEHOLDER_IMAGE

(* C13: every card links to /agents/<slug>, and the finished build has   *)
(* written a detail document at the path of every card.                  *)
C13_CardLinksResolve ==
    /\ \A k \in DOMAIN index : index[k].href = <<"agents", index[k].slug>>
    /\ pc = "done" => \A k \in DOMAIN index : index[k].href \in dist

(* C14: a section component receives a narrow slice of the record, never *)
(* the record: Skills receives exactly skills and accentColor, and the   *)
(* accentColor of Hero, Skills and Philosophy is the accentColor of the  *)
(* content file.                                                         *)
C14_NarrowProps ==
    \A p \in DetailPages : \A a \in DOMAIN detail[p] :
        LET s == detail[p][a]
        IN  /\ Cardinality(DOMAIN s.props) <= 3
            /\ ~(SchemaKeys \subseteq DOMAIN s.props)
            /\ s.kind = "Skills" =>
                  /\ DOMAIN s.props = {"skills", "accentColor"}
                  /\ s.props.skills.t = "arr"
                  /\ Len(s.props.skills.v) = Len(entries[1].skills.v)
                  /\ \A k \in DOMAIN s.props.skills.v :
                        s.props.skills.v[k].v.name.v
                            = entries[1].skills.v[k].v.name.v
            /\ s.kind \in {"Hero", "Skills", "Philosophy"} =>
                  /\ "accentColor" \in DOMAIN s.props
                  /\ s.props.accentColor.t = "str"
                  /\ s.props.accentColor.v = entries[1].accentColor.v
            /\ s.kind \notin {"Hero", "Skills", "Philosophy"} =>
                  "accentColor" \notin DOMAIN s.props

C14_Witness ==
    \E p \in DetailPages :
        /\ AgentPath(p) \in dist
        /\ entries[1].accentColor.v = "x"
        /\ Len(entries[1].skills.v) = 2
        /\ \E a \in DOMAIN detail[p] :
              /\ detail[p][a].kind = "Skills"
              /\ detail[p][a].props.accentColor.v = "x"

(* C15 (as stated): the order of a validated record is an integer, a     *)
(* content file with a non-integer or non-numeric order is rejected.     *)
C15_OrderIsInteger ==
    /\ \A i \in DOMAIN store :
          store[i].data.order.t = "num" /\ store[i].data.order.frac = 0
    /\ \A i \in 1..Len(entries) :
          (entries[i].order.t \notin {"undef", "num"}
              \/ (entries[i].order.t = "num" /\ entries[i].order.frac # 0))
          => (Len(store) < i /\ pc \in {"sync", "failed"})

(* C15 (amended): the order of a validated record is a number; a         *)
(* non-integer order is accepted and returned as given, a non-numeric    *)
(* order is rejected.                                                    *)
C15_OrderIsNumber ==
    /\ \A i \in DOMAIN store : store[i].data.order.t = "num"
    /\ \A i \in DOMAIN store :
          (entries[i].order.t = "num" /\ entries[i].order.frac # 0) =>
              /\ store[i].data.order.v = entries[i].order.v
              /\ store[i].data.order.frac = entries[i].order.frac
    /\ pc = "failed" => entries[next] # [BaseEntry EXCEPT !.order = NumHalf(1)]
    /\ \A i \in 1..Len(entries) :
          entries[i].order.t \notin {"undef", "num"}
              => (Len(store) < i /\ pc \in {"sync", "failed"})

C15_Witness ==
    /\ pc = "done"
    /\ \E i \in DOMAIN store :
          /\ entries[i].order.t = "num" /\ entries[i].order.frac = 5
          /\ store[i].data.order.frac = 5

(* The validated record read back as a content file. *)
AsRaw(r) == [f \in RawKeys |-> IF f \in SchemaKeys THEN r[f] ELSE Undef]

ListKeys == {"about", "specialties", "skills", "useCases", "codeExamples",
             "does", "doesNot"}

(* C16: validating a validated record again succeeds and returns the     *)
(* same record, and every list of the record has the length and the      *)
(* element order of the list in the content file.                        *)
C16_IdempotentOrderPreserving ==
    \A i \in DOMAIN store :
        LET out   == store[i].data
            src   == entries[i]
            again == validate(AsRaw(out))
        IN  /\ again.ok
            /\ again.v = out
            /\ \A f \in ListKeys : Len(out[f].v) = Len(src[f].v)
            /\ \A f \in {"about", "specialties", "does", "doesNot"} :
                  \A k \in DOMAIN src[f].v : out[f].v[k].v = src[f].v[k].v
            /\ \A k \in DOMAIN src.skills.v :
                  out.skills.v[k].v.name.v = src.skills.v[k].v.name.v
            /\ \A k \in DOMAIN src.useCases.v :
                  out.useCases.v[k].v.title.v = src.useCases.v[k].v.title.v
            /\ \A k \in DOMAIN src.codeExamples.v :
                  out.codeExamples.v[k].v.title.v = src.codeExamples.v[k].v.title.v
            /\ Len(out.philosophy.v.explanation.v)
                  = Len(src.philosophy.v.explanation.v)
            /\ \A k \in DOMAIN src.philosophy.v.explanation.v :
                  out.philosophy.v.explanation.v[k].v
                      = src.philosophy.v.explanation.v[k].v

C16_Witness ==
    \E i \in DOMAIN store :
        /\ Len(entries[i].about.v) = 2
        /\ entries[i].about.v[1].v # entries[i].about.v[2].v
        /\ Len(entries[i].codeExamples.v) = 2
        /\ entries[i].codeExamples.v[2].v.lang.t = "undef"

====
